---------------------------- MODULE Spec2Model ----------------------------
(***************************************************************************)
(* Model of convert_svg_to_png.py: the symbol extractor                    *)
(* (preprocess_svg_for_template), the rasterizer adapter and canvas        *)
(* compositor (convert_svg_to_png), the output validator (verify_png) and  *)
(* the batch driver (main).                                                *)
(*                                                                         *)
(* Three specifications share the module:                                  *)
(*   Spec       the batch run: main, convert_svg_to_png and its calls      *)
(*   SpecScan   preprocess_svg_for_template applied to bounded documents   *)
(*   SpecVerify verify_png applied to bounded files                        *)
(***************************************************************************)
EXTENDS Integers, Sequences, FiniteSets, TLC

(***************************************************************************)
(* Bounds of the model.                                                    *)
(***************************************************************************)
\* Largest number of entries of ICON_MAPPINGS.
MaxIcons == 2
\* Largest number of tokens in the body of a generated Symbols group.
MaxTokens == 4
\* Largest side of an artwork's bounding box: ratios from 1:MaxSide to MaxSide:1.
MaxSide == 24

(***************************************************************************)
(* Text: a document is a sequence of one-character strings.  Positions are *)
(* 0-based as in Python, Slice(s, a, b) is s[a:b].                         *)
(***************************************************************************)
Min(a, b) == IF a < b THEN a ELSE b

Slice(s, a, b) == SubSeq(s, a + 1, Min(b, Len(s)))

\* str.find: the lowest index where sub occurs in s, -1 when it does not.
Find(s, sub) ==
    LET hits == {i \in 0..(Len(s) - Len(sub)) : Slice(s, i, i + Len(sub)) = sub}
    IN  IF hits = {} THEN -1
        ELSE CHOOSE i \in hits : \A j \in hits : i <= j

\* 'sub in s'
Contains(s, sub) == Find(s, sub) # -1

\* The literals the scan compares against.
SYMBOLS_TAG ==
    <<"<", "g", " ", "i", "d", "=", "\"", "S", "y", "m", "b", "o", "l", "s", "\"", ">">>
G_SPACE == <<"<", "g", " ">>
G_BARE == <<"<", "g", ">">>
G_CLOSE == <<"<", "/", "g", ">">>

RECURSIVE ScanLoop(_, _, _)
\* The while loop of the depth-counting scan: symbols_end when the loop
\* breaks, -1 when it runs off the text (the while's else branch).
ScanLoop(s, pos, depth) ==
    IF ~(pos < Len(s) /\ depth > 0) THEN -1
    ELSE IF Slice(s, pos, pos + 3) = G_SPACE \/ Slice(s, pos, pos + 3) = G_BARE
         THEN ScanLoop(s, pos + 1, depth + 1)
    ELSE IF Slice(s, pos, pos + 4) = G_CLOSE
         THEN IF depth - 1 = 0 THEN pos + 4
              ELSE ScanLoop(s, pos + 1, depth - 1)
    ELSE ScanLoop(s, pos + 1, depth)

\* symbols_start and symbols_end of a document; end = -1 when the function
\* returns the original path.
SymbolsStart(s) == Find(s, SYMBOLS_TAG)

SymbolsEnd(s) ==
    IF SymbolsStart(s) = -1 THEN -1
    ELSE ScanLoop(s, SymbolsStart(s) + Len(SYMBOLS_TAG), 1)

(***************************************************************************)
(* fix_path_fill and the re.sub over '<path\s+[^>]*>'.                     *)
(***************************************************************************)
PATH_OPEN == <<"<", "p", "a", "t", "h", " ">>
FILL_EQ == <<"f", "i", "l", "l", "=">>
FILL_NONE == <<"f", "i", "l", "l", "=", "\"", "n", "o", "n", "e", "\"">>
FILL_BLACK == <<"f", "i", "l", "l", "=", "\"", "b", "l", "a", "c", "k", "\"">>
PATH_OPEN_FILLED == PATH_OPEN \o FILL_BLACK \o <<" ">>

RECURSIVE Replace(_, _, _)
\* str.replace / re.sub of a literal: every occurrence, left to right.
Replace(s, sub, by) ==
    LET i == Find(s, sub)
    IN  IF i = -1 THEN s
        ELSE Slice(s, 0, i) \o by \o Replace(Slice(s, i + Len(sub), Len(s)), sub, by)

FixPathFill(path_tag) ==
    LET t1 == Replace(path_tag, FILL_NONE, FILL_BLACK)
        t2 == IF ~Contains(t1, FILL_EQ) THEN Replace(t1, PATH_OPEN, PATH_OPEN_FILLED)
              ELSE t1
    IN  t2

RECURSIVE SubPaths(_)
\* re.sub(r'<path\s+[^>]*>', fix_path_fill, symbols_group)
SubPaths(s) ==
    LET i == Find(s, PATH_OPEN)
    IN  IF i = -1 THEN s
        ELSE LET rest == Slice(s, i, Len(s))
                 j == Find(rest, <<">">>)
             IN  IF j = -1 THEN s
                 ELSE Slice(s, 0, i) \o FixPathFill(Slice(rest, 0, j + 1))
                        \o SubPaths(Slice(rest, j + 1, Len(rest)))

\* The fixed head and tail of new_svg, each kept as one piece of text.
NEW_SVG_HEAD ==
    <<"<?xml version=\"1.0\" encoding=\"UTF-8\"?>\n<svg version=\"1.1\" xmlns=\"http://www.w3.org/2000/svg\" viewBox=\"0 0 3300 2200\">\n">>
NEW_SVG_TAIL == <<"\n</svg>\n">>

\* What preprocess_svg_for_template returns: the original path, or a new
\* temporary file holding the extracted group (group: symbols_group as
\* sliced at line 89, text: the document written to the temporary file).
PreprocessSvg(s) ==
    IF SymbolsEnd(s) = -1
    THEN [kind |-> "original", group |-> <<>>, text |-> <<>>]
    ELSE LET symbols_group == Slice(s, SymbolsStart(s), SymbolsEnd(s))
         IN  [kind |-> "temp",
              group |-> symbols_group,
              text |-> NEW_SVG_HEAD \o SubPaths(symbols_group) \o NEW_SVG_TAIL]

(***************************************************************************)
(* Documents for the scan: a Symbols group whose body is a sequence of     *)
(* tokens, wrapped in the text that precedes and follows it.               *)
(***************************************************************************)
Tokens == {"open_attr", "open_bare", "self_closing", "close", "path"}

TokText(t) ==
    CASE t = "open_attr"    -> <<"<", "g", " ", "i", ">">>
      [] t = "open_bare"    -> <<"<", "g", ">">>
      [] t = "self_closing" -> <<"<", "g", " ", "i", "/", ">">>
      [] t = "close"        -> <<"<", "/", "g", ">">>
      [] t = "path"         -> <<"<", "p", "a", "t", "h", " ", "d", "/", ">">>

RECURSIVE Flatten(_)
Flatten(toks) ==
    IF toks = <<>> THEN <<>> ELSE TokText(Head(toks)) \o Flatten(Tail(toks))

\* XML nesting of a token sequence: the depth after it, -1 once a close tag
\* has no open tag to match.  A self-closing tag opens nothing.
RECURSIVE DepthAfter(_, _)
DepthAfter(toks, d) ==
    IF d < 0 \/ toks = <<>> THEN d
    ELSE DepthAfter(Tail(toks),
                    CASE Head(toks) \in {"open_attr", "open_bare"} -> d + 1
                      [] Head(toks) = "close" -> d - 1
                      [] OTHER -> d)

Balanced(toks) == DepthAfter(toks, 0) = 0

\* Number of nested groups of a body.
NestedGroups(toks) ==
    Cardinality({i \in 1..Len(toks) : toks[i] \in {"open_attr", "open_bare", "self_closing"}})

Bodies == {b \in UNION {[1..n -> Tokens] : n \in 0..MaxTokens} : Balanced(b)}

SIBLING == <<"open_attr", "path", "close">>

\* The text before and after the Symbols group; each pair keeps the whole
\* document well formed.
Wrappers ==
    { [pre |-> <<>>, post |-> <<>>],
      [pre |-> <<>>, post |-> SIBLING],
      [pre |-> SIBLING, post |-> <<>>],
      [pre |-> <<"open_attr">>, post |-> SIBLING \o <<"close">>] }

\* A well-formed document, with the place of its Symbols group.
WellFormedDoc(w, b) ==
    LET pre == Flatten(w.pre)
        group == SYMBOLS_TAG \o Flatten(b) \o G_CLOSE
    IN  [text |-> pre \o group \o Flatten(w.post),
         wf |-> TRUE,
         nested |-> NestedGroups(b),
         selfclosing |-> \E i \in 1..Len(b) : b[i] = "self_closing",
         group |-> group,
         sibling |-> w.post # <<>>]

\* Documents outside the claimed domain: no Symbols group, and a Symbols
\* group that is never closed.
MalformedDocs ==
    { [text |-> Flatten(SIBLING), wf |-> FALSE, nested |-> 0,
       selfclosing |-> FALSE, group |-> <<>>, sibling |-> FALSE],
      [text |-> SYMBOLS_TAG \o Flatten(<<"open_attr", "path">>), wf |-> FALSE,
       nested |-> 1, selfclosing |-> FALSE, group |-> <<>>, sibling |-> FALSE] }

ScanDocs == {WellFormedDoc(w, b) : w \in Wrappers, b \in Bodies} \cup MalformedDocs

VARIABLES scan_doc, scan_pc, scan_ret

scanVars == <<scan_doc, scan_pc, scan_ret>>

NoRet == [kind |-> "none", group |-> <<>>, text |-> <<>>]

ScanIdle == scan_doc = [text |-> <<>>] /\ scan_pc = "idle" /\ scan_ret = NoRet

ScanInit == scan_doc \in ScanDocs /\ scan_pc = "start" /\ scan_ret = NoRet

\* preprocess_svg_for_template(svg_path) on the document read from svg_path.
Preprocess ==
    /\ scan_pc = "start"
    /\ scan_ret' = PreprocessSvg(scan_doc.text)
    /\ scan_pc' = "returned"
    /\ UNCHANGED scan_doc

(***************************************************************************)
(* Files.  A file is absent, a zero-byte file, or an image.  An image is   *)
(* kept by its size and its alpha channel: `opaque` pixels of alpha 255,   *)
(* one more pixel of alpha `partial` (0..254), every other pixel alpha 0.  *)
(***************************************************************************)
NoFile == [kind |-> "absent"]
EmptyFile == [kind |-> "empty"]

Image(w, h, opaque, partial, from) ==
    [kind |-> "image", w |-> w, h |-> h, opaque |-> opaque, partial |-> partial,
     from |-> from]

Pixels(f) == f.w * f.h
AlphaSum(f) == 255 * f.opaque + f.partial

(***************************************************************************)
(* identify -format '%[fx:mean.a]': the mean of the alpha channel on the   *)
(* 0-1 scale, printed with six significant digits.  The printed number is  *)
(* kept as mant * 10^(exp - 5), mant in 100000..999999, or mant = 0.       *)
(***************************************************************************)
RECURSIVE Normalise(_, _, _)
\* Scale num by ten until num / den has a nonzero units digit.
Normalise(num, den, e) ==
    IF num >= den THEN [num |-> num, e |-> e]
    ELSE Normalise(num * 10, den, e - 1)

RECURSIVE LongDivide(_, _, _, _)
\* k more decimal digits of rem / den appended to acc.
LongDivide(acc, rem, den, k) ==
    IF k = 0 THEN [acc |-> acc, rem |-> rem]
    ELSE LongDivide(acc * 10 + (rem * 10) \div den, (rem * 10) % den, den, k - 1)

FormatMeanAlpha(f) ==
    LET num == AlphaSum(f)
        den == 255 * Pixels(f)
    IN  IF num = 0 THEN [mant |-> 0, exp |-> 0]
        ELSE LET n == Normalise(num, den, 0)
                 d == LongDivide(n.num \div den, n.num % den, den, 5)
                 m == IF 2 * d.rem >= den THEN d.acc + 1 ELSE d.acc
             IN  IF m = 1000000 THEN [mant |-> 100000, exp |-> n.e + 1]
                 ELSE [mant |-> m, exp |-> n.e]

\* float(result.stdout.strip()) < 0.01, with a threshold of 0.1 instead.
AlphaMeanTooLowTenth(printed) == printed.mant = 0 \/ printed.exp < -1

\* float(result.stdout.strip()) < 0.01
AlphaMeanTooLow(printed) == printed.mant = 0 \/ printed.exp < -2

\* What the identify invocation can do.
IdentifyOutcomes == {"ok", "nonzero", "timeout", "unparseable"}

\* verify_png(png_path) for the file at png_path and the outcome of identify.
VerifyPng(f, tool) ==
    IF f.kind = "absent" THEN [valid |-> FALSE, message |-> "File does not exist"]
    ELSE IF f.kind = "empty" THEN [valid |-> FALSE, message |-> "File is empty"]
    ELSE IF tool = "timeout" THEN [valid |-> FALSE, message |-> "Verification timeout"]
    ELSE IF tool = "nonzero" THEN [valid |-> FALSE, message |-> "identify failed"]
    ELSE IF tool = "unparseable" THEN [valid |-> FALSE, message |-> "Invalid alpha value"]
    ELSE IF AlphaMeanTooLow(FormatMeanAlpha(f))
         THEN [valid |-> FALSE, message |-> "Image is all-transparent"]
    ELSE [valid |-> TRUE, message |-> "Valid"]

(***************************************************************************)
(* Files for the validator.                                                *)
(***************************************************************************)
VerifySides == {<<1, 1>>, <<10, 10>>, <<10, 11>>, <<96, 96>>}
OpaqueSamples == {0, 1, 2, 92, 93, 100, 9216}
PartialSamples == {0, 1, 40, 41, 254}

\* An image of the samples fits its size: the opaque pixels, and the partly
\* transparent one when there is one, are pixels of the image.
FitsSize(f) == f.opaque + (IF f.partial > 0 THEN 1 ELSE 0) <= Pixels(f)

VerifyFiles ==
    {NoFile, EmptyFile} \cup
    { f \in { Image(wh[1], wh[2], k, p, "given") :
                wh \in VerifySides, k \in OpaqueSamples, p \in PartialSamples } :
        FitsSize(f) }

VARIABLES v_file, v_tool, v_pc, v_ret

verifyVars == <<v_file, v_tool, v_pc, v_ret>>

NoVerdict == [valid |-> FALSE, message |-> ""]

VerifyIdle == v_file = NoFile /\ v_tool = "ok" /\ v_pc = "idle" /\ v_ret = NoVerdict

VerifyInit ==
    /\ v_file \in VerifyFiles
    /\ v_tool \in IdentifyOutcomes
    /\ v_pc = "start"
    /\ v_ret = NoVerdict

\* verify_png(png_path)
Verify ==
    /\ v_pc = "start"
    /\ v_ret' = VerifyPng(v_file, v_tool)
    /\ v_pc' = "returned"
    /\ UNCHANGED <<v_file, v_tool>>

(***************************************************************************)
(* The batch run.                                                          *)
(***************************************************************************)
\* size, the default of convert_svg_to_png, which main never overrides.
SIZE == 96
\* test_size, the width of the probe render.
TEST_SIZE == 200

SYMBOL_IDS == <<"Regular-M", "Regular-S", "Regular-L">>

\* export_size = int(size * 0.92)
ExportSize(size) == (size * 92) \div 100

\* The source of an icon: absent, or an SVG document.  "plain" holds no
\* Symbols group; the others hold one.  Each document has its artwork: the
\* sides of its bounding box (as a ratio) and whether it draws anything.
SrcKinds == {"absent", "plain", "symbols", "symbols_blank"}

DocOf(kind) ==
    IF kind = "plain" THEN Flatten(SIBLING)
    ELSE SYMBOLS_TAG \o Flatten(<<"path">>) \o G_CLOSE

ArtOf(kind) ==
    CASE kind = "plain"         -> [w |-> 2, h |-> 1, visible |-> TRUE]
      [] kind = "symbols"       -> [w |-> 1, h |-> 2, visible |-> TRUE]
      [] kind = "symbols_blank" -> [w |-> 1, h |-> 1, visible |-> FALSE]

\* px * b / a rounded to the nearest pixel, at least one pixel.
Scale(px, a, b) ==
    LET r == (2 * px * b + a) \div (2 * a) IN IF r < 1 THEN 1 ELSE r

\* The file the rasterizer writes for --export-width / --export-height = px:
\* the artwork at that size, its aspect ratio kept.  Half the pixels of
\* visible artwork are opaque.
Rasterize(art, constrained, px, from) ==
    LET w == IF constrained = "width" THEN px ELSE Scale(px, art.h, art.w)
        h == IF constrained = "width" THEN Scale(px, art.w, art.h) ELSE px
        k == IF art.visible THEN (IF (w * h) \div 2 < 1 THEN 1 ELSE (w * h) \div 2)
             ELSE 0
    IN  Image(w, h, k, 0, from)

\* What one rasterizer invocation can do: write its file and return 0,
\* return 0 having written nothing, return non-zero having written nothing,
\* or fail to start (subprocess.run raises).
RasterOutcomes == {"wrote", "nothing", "error", "raise"}

\* The dimension the final render is constrained by (aspect_ratio >= 1.0).
ConstrainedDimension(w, h) == IF w >= h THEN "width" ELSE "height"

\* x_offset, y_offset of the paste.
Offset(size, side) == (size - side) \div 2

\* The part of a side of the pasted image that lands on the canvas.
OnCanvas(size, side) ==
    LET lo == IF Offset(size, side) < 0 THEN 0 ELSE Offset(size, side)
        hi == Min(size, Offset(size, side) + side)
    IN  hi - lo

\* final_img: a transparent size x size canvas with img pasted at the
\* offsets; its opaque pixels are those of img that land on the canvas.
Paste(img, size) ==
    Image(size, size,
          (img.opaque * (OnCanvas(size, img.w) * OnCanvas(size, img.h)))
              \div (img.w * img.h),
          0, img.from)

\* What an earlier run left in the output directory.
EarlierOutput == Image(SIZE, SIZE, 3872, 0, "earlier run")

\* sorted(ICON_MAPPINGS.items()), in descending order.
RECURSIVE SortedItemsDescending(_)
SortedItemsDescending(S) ==
    IF S = {} THEN <<>>
    ELSE LET m == CHOOSE x \in S : \A y \in S : x >= y
         IN  <<m>> \o SortedItemsDescending(S \ {m})

\* sorted(ICON_MAPPINGS.items()): the names in ascending order.
RECURSIVE SortedItems(_)
SortedItems(S) ==
    IF S = {} THEN <<>>
    ELSE LET m == CHOOSE x \in S : \A y \in S : x <= y
         IN  <<m>> \o SortedItems(S \ {m})

\* main's return value, decided on the failure count alone.
ExitStatusNoFailures(converted, invalid, failed, total) ==
    IF failed = 0 THEN 0 ELSE 1

\* main's return value.
ExitStatus(converted, invalid, failed, total) ==
    IF converted = total THEN 0 ELSE 1

\* The finally block's test before unlinking temp_svg, without the
\* comparison to svg_path.
CleanupUnlinksSvgAlways(t) == t # "None"

\* The finally block's test before unlinking temp_svg.
CleanupUnlinksSvg(t) == t # "None" /\ t # "svg_path"

VARIABLES
    names,            \* the keys of ICON_MAPPINGS
    src, src0,        \* the source file of each icon, now and at the start
    out,              \* the file at each icon's output path
    tmpfiles,         \* the temporary files of this run that exist
    pc, idx,          \* where main is, and the index of the current icon
    processed,        \* the icons the loop has taken, in order
    temp_svg,         \* convert's temp_svg: "None", "svg_path" or "temp"
    temp_png,         \* convert's temp_png is set
    tmp_png,          \* the file at temp_png_path
    sid,              \* the index in symbol_ids of the identifier tried
    tried,            \* the identifiers tried in this call, in order
    aspect,           \* the sides of test_img
    probe_fresh,      \* this identifier's probe wrote the file it measured
    final_fresh,      \* this identifier's constrained render wrote its file
    raised,           \* this call left through the except clause
    pasted,           \* img, x_offset, y_offset of the paste
    ret, ret_sid,     \* convert's return value, the identifier it returned at
    converted_count, failed_count, invalid_count,
    outcome,          \* what main recorded for each icon
    exit_status

batchVars ==
    <<names, src, src0, out, tmpfiles, pc, idx, processed, temp_svg, temp_png,
      tmp_png, sid, tried, aspect, probe_fresh, final_fresh, raised, pasted, ret,
      ret_sid, converted_count, failed_count, invalid_count, outcome, exit_status>>

callVars ==
    <<temp_svg, temp_png, tmp_png, sid, tried, aspect, probe_fresh, final_fresh,
      raised, pasted, ret, ret_sid>>

countVars == <<converted_count, failed_count, invalid_count, outcome, exit_status>>

\* What main knows of an icon: its class, what convert returned for it
\* ("not called" when it was not called) and what verify_png said.
Pending == [class |-> "pending", ret |-> "not called", valid |-> FALSE]

NoPaste == [w |-> 0, h |-> 0, x_offset |-> 0, y_offset |-> 0, constrained |-> "none"]

order == SortedItems(names)
icon == order[idx]
temp_svg_file == <<"svg", icon>>
temp_png_file == <<"png", icon>>

CallInit ==
    /\ temp_svg = "None" /\ temp_png = FALSE /\ tmp_png = NoFile
    /\ sid = 0 /\ tried = <<>> /\ aspect = <<0, 0>>
    /\ probe_fresh = FALSE /\ final_fresh = FALSE /\ raised = FALSE
    /\ pasted = NoPaste /\ ret = "none" /\ ret_sid = 0

\* Lines 142-143 and the locals of a fresh call.
CallReset ==
    /\ temp_svg' = "None" /\ temp_png' = FALSE /\ tmp_png' = NoFile
    /\ sid' = 0 /\ tried' = <<>> /\ aspect' = <<0, 0>>
    /\ probe_fresh' = FALSE /\ final_fresh' = FALSE /\ raised' = FALSE
    /\ pasted' = NoPaste /\ ret' = "none" /\ ret_sid' = 0

BatchIdle ==
    /\ names = {} /\ src = <<>> /\ src0 = <<>> /\ out = <<>> /\ tmpfiles = {}
    /\ pc = "idle" /\ idx = 0 /\ processed = <<>>
    /\ CallInit
    /\ converted_count = 0 /\ failed_count = 0 /\ invalid_count = 0
    /\ outcome = <<>> /\ exit_status = -1

Init ==
    /\ names \in {1..n : n \in 1..MaxIcons}
    /\ src \in [names -> SrcKinds]
    /\ src0 = src
    /\ out \in [names -> {NoFile, EarlierOutput}]
    /\ tmpfiles = {}
    /\ pc = "loop" /\ idx = 1 /\ processed = <<>>
    /\ CallInit
    /\ converted_count = 0 /\ failed_count = 0 /\ invalid_count = 0
    /\ outcome = [i \in names |-> Pending]
    /\ exit_status = -1
    /\ ScanIdle /\ VerifyIdle

\* Lines 317-326: the loop takes the next icon, whose source is absent.
LoopMissing ==
    /\ pc = "loop" /\ idx <= Len(order)
    /\ src[icon] = "absent"
    /\ failed_count' = failed_count + 1
    /\ outcome' = [outcome EXCEPT ![icon] =
                        [class |-> "failed", ret |-> "not called", valid |-> FALSE]]
    /\ processed' = Append(processed, icon)
    /\ idx' = idx + 1
    /\ UNCHANGED <<names, src, src0, out, tmpfiles, pc, callVars,
                   converted_count, invalid_count, exit_status>>

\* Lines 317-329, 142-144: the loop takes the next icon and calls
\* convert_svg_to_png.
LoopConvert ==
    /\ pc = "loop" /\ idx <= Len(order)
    /\ src[icon] # "absent"
    /\ processed' = Append(processed, icon)
    /\ CallReset
    /\ pc' = "preprocess"
    /\ UNCHANGED <<names, src, src0, out, tmpfiles, idx, countVars>>

\* The except clause: print, return False (the finally block runs next).
Raise ==
    /\ raised' = TRUE
    /\ ret' = "False"
    /\ pc' = "finally"

\* Line 146, preprocess_svg_for_template reads the source and fails
\* (open or decoding raises): nothing was created.
PreprocessReadRaises ==
    /\ pc = "preprocess"
    /\ Raise
    /\ UNCHANGED <<names, src, src0, out, tmpfiles, idx, processed, temp_svg,
                   temp_png, tmp_png, sid, tried, aspect, probe_fresh, final_fresh,
                   pasted, ret_sid, countVars>>

\* Line 146, lines 122-125: the temporary file was created and writing it
\* raises; temp_svg was never assigned.
PreprocessWriteRaises ==
    /\ pc = "preprocess"
    /\ PreprocessSvg(DocOf(src[icon])).kind = "temp"
    /\ tmpfiles' = tmpfiles \cup {temp_svg_file}
    /\ Raise
    /\ UNCHANGED <<names, src, src0, out, idx, processed, temp_svg,
                   temp_png, tmp_png, sid, tried, aspect, probe_fresh, final_fresh,
                   pasted, ret_sid, countVars>>

\* Lines 146-162: preprocess returns; the output file is deleted when it
\* exists; the temporary PNG is created, empty.
PreprocessReturns ==
    /\ pc = "preprocess"
    /\ LET pre == PreprocessSvg(DocOf(src[icon]))
       IN  /\ temp_svg' = IF pre.kind = "temp" THEN "temp" ELSE "svg_path"
           /\ tmpfiles' = tmpfiles \cup {temp_png_file}
                            \cup (IF pre.kind = "temp" THEN {temp_svg_file} ELSE {})
    /\ out' = [out EXCEPT ![icon] = NoFile]
    /\ temp_png' = TRUE
    /\ tmp_png' = EmptyFile
    /\ sid' = 1
    /\ pc' = "probe"
    /\ UNCHANGED <<names, src, src0, idx, processed, tried, aspect, probe_fresh,
                   final_fresh, raised, pasted, ret, ret_sid, countVars>>

\* The for loop moves on: the next identifier, or lines 241-243.
NextSymbolId ==
    IF sid < Len(SYMBOL_IDS)
    THEN sid' = sid + 1 /\ pc' = "probe" /\ UNCHANGED ret
    ELSE sid' = sid /\ pc' = "finally" /\ ret' = "False"

\* Lines 164-180: the probe render of the identifier and the test on it.
Probe ==
    /\ pc = "probe"
    /\ tried' = Append(tried, SYMBOL_IDS[sid])
    /\ \E o \in RasterOutcomes \ {"raise"} :
        /\ tmp_png' = IF o = "wrote"
                      THEN Rasterize(ArtOf(src[icon]), "width", TEST_SIZE,
                                     [sid |-> sid, render |-> "probe"])
                      ELSE tmp_png
        /\ IF o # "error" /\ tmp_png'.kind = "image"
           THEN /\ aspect' = <<tmp_png'.w, tmp_png'.h>>
                /\ probe_fresh' = (o = "wrote")
                /\ pc' = "render"
                /\ UNCHANGED <<sid, ret>>
           ELSE /\ NextSymbolId
                /\ UNCHANGED <<aspect, probe_fresh>>
    /\ UNCHANGED <<names, src, src0, out, tmpfiles, idx, processed, temp_svg,
                   temp_png, final_fresh, raised, pasted, ret_sid, countVars>>

\* Line 178 or 217: subprocess.run raises.
RasterizerRaises ==
    /\ pc \in {"probe", "render"}
    /\ tried' = IF pc = "probe" THEN Append(tried, SYMBOL_IDS[sid]) ELSE tried
    /\ Raise
    /\ UNCHANGED <<names, src, src0, out, tmpfiles, idx, processed, temp_svg,
                   temp_png, tmp_png, sid, aspect, probe_fresh, final_fresh,
                   pasted, ret_sid, countVars>>

\* Lines 181-219: the constrained render and the test on it.
Render ==
    /\ pc = "render"
    /\ \E o \in RasterOutcomes \ {"raise"} :
        /\ tmp_png' = IF o = "wrote"
                      THEN Rasterize(ArtOf(src[icon]),
                                     ConstrainedDimension(aspect[1], aspect[2]),
                                     ExportSize(SIZE),
                                     [sid |-> sid, render |-> "final"])
                      ELSE tmp_png
        /\ IF o # "error" /\ tmp_png'.kind # "absent"
           THEN /\ final_fresh' = (o = "wrote")
                /\ pc' = "composite"
                /\ UNCHANGED <<sid, ret, probe_fresh>>
           ELSE /\ NextSymbolId
                /\ probe_fresh' = FALSE
                /\ UNCHANGED final_fresh
    /\ UNCHANGED <<names, src, src0, out, tmpfiles, idx, processed, temp_svg,
                   temp_png, tried, aspect, raised, pasted, ret_sid, countVars>>

\* Lines 220-239: paste on the canvas, save, unlink the temporary PNG,
\* return True.
Composite ==
    /\ pc = "composite"
    /\ pasted' = [w |-> tmp_png.w, h |-> tmp_png.h,
                  x_offset |-> Offset(SIZE, tmp_png.w),
                  y_offset |-> Offset(SIZE, tmp_png.h),
                  constrained |-> ConstrainedDimension(aspect[1], aspect[2])]
    /\ out' = [out EXCEPT ![icon] = Paste(tmp_png, SIZE)]
    /\ tmp_png' = NoFile
    /\ tmpfiles' = tmpfiles \ {temp_png_file}
    /\ ret' = "True"
    /\ ret_sid' = sid
    /\ pc' = "finally"
    /\ UNCHANGED <<names, src, src0, idx, processed, temp_svg, temp_png, sid,
                   tried, aspect, probe_fresh, final_fresh, raised, countVars>>

\* Lines 248-253: the finally block.
Finally ==
    /\ pc = "finally"
    /\ LET unlink_svg == CleanupUnlinksSvg(temp_svg)
       IN  \* temp_svg.unlink() removes the file temp_svg names: the source
           \* when temp_svg is svg_path, the temporary file otherwise.
           /\ src' = IF unlink_svg /\ temp_svg = "svg_path"
                     THEN [src EXCEPT ![icon] = "absent"] ELSE src
           /\ tmpfiles' = (tmpfiles
                             \ (IF unlink_svg /\ temp_svg = "temp"
                                THEN {temp_svg_file} ELSE {}))
                             \ (IF temp_png THEN {temp_png_file} ELSE {})
    /\ tmp_png' = NoFile
    /\ pc' = "returned"
    /\ UNCHANGED <<names, src0, out, idx, processed, temp_svg, temp_png, sid,
                   tried, aspect, probe_fresh, final_fresh, raised, pasted, ret,
                   ret_sid, countVars>>

\* Lines 338-340: convert returned False.
RecordFailed ==
    /\ pc = "returned" /\ ret = "False"
    /\ failed_count' = failed_count + 1
    /\ outcome' = [outcome EXCEPT ![icon] =
                        [class |-> "failed", ret |-> "False", valid |-> FALSE]]
    /\ idx' = idx + 1
    /\ pc' = "loop"
    /\ CallReset
    /\ UNCHANGED <<names, src, src0, out, tmpfiles, processed,
                   converted_count, invalid_count, exit_status>>

\* Lines 329-337: convert returned True; verify_png decides.
RecordVerified ==
    /\ pc = "returned" /\ ret = "True"
    /\ \E tool \in IdentifyOutcomes :
        IF VerifyPng(out[icon], tool).valid
        THEN /\ converted_count' = converted_count + 1
             /\ outcome' = [outcome EXCEPT ![icon] =
                              [class |-> "converted", ret |-> "True", valid |-> TRUE]]
             /\ UNCHANGED invalid_count
        ELSE /\ invalid_count' = invalid_count + 1
             /\ outcome' = [outcome EXCEPT ![icon] =
                              [class |-> "invalid", ret |-> "True", valid |-> FALSE]]
             /\ UNCHANGED converted_count
    /\ idx' = idx + 1
    /\ pc' = "loop"
    /\ CallReset
    /\ UNCHANGED <<names, src, src0, out, tmpfiles, processed,
                   failed_count, exit_status>>

\* Lines 342-356: the loop is over; the summary and the return value.
Summary ==
    /\ pc = "loop" /\ idx > Len(order)
    /\ exit_status' = ExitStatus(converted_count, invalid_count, failed_count,
                                 Cardinality(names))
    /\ pc' = "done"
    /\ UNCHANGED <<names, src, src0, out, tmpfiles, idx, processed, callVars,
                   converted_count, failed_count, invalid_count, outcome>>

vars == <<batchVars, scanVars, verifyVars>>

Next ==
    \/ LoopMissing /\ UNCHANGED <<scanVars, verifyVars>>
    \/ LoopConvert /\ UNCHANGED <<scanVars, verifyVars>>
    \/ PreprocessReadRaises /\ UNCHANGED <<scanVars, verifyVars>>
    \/ PreprocessWriteRaises /\ UNCHANGED <<scanVars, verifyVars>>
    \/ PreprocessReturns /\ UNCHANGED <<scanVars, verifyVars>>
    \/ Probe /\ UNCHANGED <<scanVars, verifyVars>>
    \/ RasterizerRaises /\ UNCHANGED <<scanVars, verifyVars>>
    \/ Render /\ UNCHANGED <<scanVars, verifyVars>>
    \/ Composite /\ UNCHANGED <<scanVars, verifyVars>>
    \/ Finally /\ UNCHANGED <<scanVars, verifyVars>>
    \/ RecordFailed /\ UNCHANGED <<scanVars, verifyVars>>
    \/ RecordVerified /\ UNCHANGED <<scanVars, verifyVars>>
    \/ Summary /\ UNCHANGED <<scanVars, verifyVars>>

Spec == Init /\ [][Next]_vars

ScanNext == Preprocess /\ UNCHANGED <<batchVars, verifyVars>>

InitScan == ScanInit /\ BatchIdle /\ VerifyIdle

SpecScan == InitScan /\ [][ScanNext]_vars

VerifyNext == Verify /\ UNCHANGED <<batchVars, scanVars>>

InitVerify == VerifyInit /\ BatchIdle /\ ScanIdle

SpecVerify == InitVerify /\ [][VerifyNext]_vars

(***************************************************************************)
(* The claims about the batch run.                                         *)
(***************************************************************************)
\* A valid non-transparent size x size raster.
ValidRaster(f) ==
    f.kind = "image" /\ f.w = SIZE /\ f.h = SIZE /\ AlphaSum(f) > 0

Classes(c) == {i \in names : outcome[i].class = c}

\* C1: at the end of a batch run every output path holds a valid
\* non-transparent size x size raster or nothing, and an icon classified
\* invalid or failed has no file at its output path.
OutputsValidOrAbsent ==
    pc = "done" =>
        \A i \in names :
            /\ out[i] # NoFile => ValidRaster(out[i])
            /\ outcome[i].class \in {"invalid", "failed"} => out[i] = NoFile

\* C2: main returns 0 exactly when convert returned True and verify_png
\* returned valid for every icon, and 1 otherwise, in particular when a
\* source is missing.
ExitZeroIffAllConverted ==
    pc = "done" =>
        /\ exit_status \in {0, 1}
        /\ (exit_status = 0) <=>
              (\A i \in names : outcome[i].ret = "True" /\ outcome[i].valid)
        /\ (\E i \in names : src0[i] = "absent") => exit_status = 1

\* Witness of C2: a run over two or more icons that returns 0.
ExitZeroReached ==
    pc = "done" /\ exit_status = 0 /\ Cardinality(names) >= 2

\* C3: the identifiers are tried in the order Regular-M, Regular-S,
\* Regular-L; a call that returns True returns at the first identifier whose
\* rasterization produced a file, having tried none after it;
\* a call that returns False without an exception has tried all three.
SuccessAtFirstRasterizedId ==
    pc = "returned" =>
        /\ tried = SubSeq(SYMBOL_IDS, 1, Len(tried))
        /\ ret = "True" => (probe_fresh \/ final_fresh) /\ Len(tried) = ret_sid
        /\ (ret = "False" /\ ~raised) => tried = SYMBOL_IDS

\* The part of C3 that does not ask which invocation wrote the file.
TriesInOrderUntilAccepted ==
    pc = "returned" =>
        /\ tried = SubSeq(SYMBOL_IDS, 1, Len(tried))
        /\ ret = "True" => Len(tried) = ret_sid
        /\ (ret = "False" /\ ~raised) => tried = SYMBOL_IDS

Ascending(q) == \A i, j \in 1..Len(q) : i < j => q[i] < q[j]

\* C4: the loop takes every icon once, in ascending order of name, whatever
\* happened to the icons before; each gets one class, the three counters add
\* up to the icons taken, and an icon without a source is failed (alone, it
\* gives 1 failed, 0 converted, 0 invalid and a non-zero exit status).
EveryIconClassifiedOnce ==
    /\ Ascending(processed)
    /\ \A i \in 1..Len(processed) : processed[i] \in names
    /\ pc = "loop" =>
          /\ Len(processed) = idx - 1
          /\ converted_count + invalid_count + failed_count = Len(processed)
          /\ \A i \in names :
                outcome[i].class = "pending" <=>
                    ~(\E k \in 1..Len(processed) : processed[k] = i)
    /\ pc = "done" =>
          /\ {processed[k] : k \in 1..Len(processed)} = names
          /\ converted_count = Cardinality(Classes("converted"))
          /\ invalid_count = Cardinality(Classes("invalid"))
          /\ failed_count = Cardinality(Classes("failed"))
          /\ converted_count + invalid_count + failed_count = Cardinality(names)
          /\ \A i \in names : src0[i] = "absent" => outcome[i].class = "failed"
          /\ (Cardinality(names) = 1 /\ \A i \in names : src0[i] = "absent") =>
                /\ failed_count = 1 /\ converted_count = 0 /\ invalid_count = 0
                /\ exit_status # 0

\* Witness of C4: the first icon has no source and is failed, the next one
\* is converted.
ConvertedAfterMissing ==
    /\ pc = "done" /\ Len(processed) >= 2
    /\ src0[processed[1]] = "absent" /\ outcome[processed[1]].class = "failed"
    /\ outcome[processed[2]].class = "converted"

\* C5: when convert_svg_to_png has returned, whatever the exit path, no
\* temporary file of the run exists.
NoTempFileAfterReturn ==
    pc \in {"returned", "loop", "done"} => tmpfiles = {}

\* Without the exception inside preprocess_svg_for_template: the temporary
\* files of a call are gone when the call has returned.
NoTempFileAfterReturnUnlessWriteRaised ==
    (pc \in {"returned", "loop", "done"} /\ tmpfiles # {}) =>
        \A t \in tmpfiles : t[1] = "svg"

\* C7: the image given to the compositor is at most size x size, the render
\* is constrained by width when the probe is at least as wide as high and by
\* height otherwise, the paste offsets are the floored half margins and at
\* least 1, and the canvas is size x size.
RenderFitsCanvas ==
    (pc = "returned" /\ ret = "True") =>
        /\ pasted.w <= SIZE /\ pasted.h <= SIZE
        /\ pasted.constrained = (IF aspect[1] >= aspect[2] THEN "width" ELSE "height")
        /\ pasted.x_offset = (SIZE - pasted.w) \div 2
        /\ pasted.y_offset = (SIZE - pasted.h) \div 2
        /\ pasted.x_offset >= 1 /\ pasted.y_offset >= 1
        /\ out[icon].w = SIZE /\ out[icon].h = SIZE

\* The same when both renders of the identifier wrote their file.
RenderFitsCanvasWhenWritten ==
    (pc = "returned" /\ ret = "True" /\ probe_fresh /\ final_fresh) =>
        /\ pasted.w <= SIZE /\ pasted.h <= SIZE
        /\ pasted.constrained = (IF aspect[1] >= aspect[2] THEN "width" ELSE "height")
        /\ pasted.x_offset = (SIZE - pasted.w) \div 2
        /\ pasted.y_offset = (SIZE - pasted.h) \div 2
        /\ pasted.x_offset >= 1 /\ pasted.y_offset >= 1
        /\ out[icon].w = SIZE /\ out[icon].h = SIZE

\* The arithmetic of C7 over every ratio of sides up to MaxSide: the probe at
\* test_size wide, the render constrained as the probe's ratio says, and the
\* paste offsets.
FitsForEveryRatio ==
    \A aw, ah \in 1..MaxSide :
        LET art == [w |-> aw, h |-> ah, visible |-> TRUE]
            probe == Rasterize(art, "width", TEST_SIZE, "probe")
            img == Rasterize(art, ConstrainedDimension(probe.w, probe.h),
                             ExportSize(SIZE), "final")
        IN  /\ img.w <= SIZE /\ img.h <= SIZE
            /\ Offset(SIZE, img.w) >= 1 /\ Offset(SIZE, img.h) >= 1

\* C9: when convert_svg_to_png returns True, the image composited into the
\* output was written by the constrained render of the identifier it
\* returned at.
OutputIsTheFinalRender ==
    (pc = "returned" /\ ret = "True") =>
        out[icon].from = [sid |-> ret_sid, render |-> "final"]

\* C10: convert_svg_to_png never deletes or modifies a source SVG.
SourceNeverDeleted == src = src0

\* Witness of C10: a call that worked on the source itself has returned.
ReturnedWithOriginalPath ==
    /\ pc = "returned" /\ temp_svg = "svg_path"
    /\ src0[icon] = "plain" /\ src[icon] = "plain"

\* C8: for a well-formed, depth-balanced Symbols group with N >= 0 nested
\* groups the scan stops at the matching close tag, so the extracted group is
\* exactly that group and holds nothing of a sibling that follows.
ScanFindsMatchingClose ==
    (scan_pc = "returned" /\ scan_doc.wf) =>
        /\ scan_ret.kind = "temp"
        /\ scan_ret.group = scan_doc.group

\* The same for documents whose nested groups are all written as an open tag
\* and a close tag.
ScanFindsMatchingCloseOfPairedTags ==
    (scan_pc = "returned" /\ scan_doc.wf /\ ~scan_doc.selfclosing) =>
        /\ scan_ret.kind = "temp"
        /\ scan_ret.group = scan_doc.group

\* C6: missing, zero-byte and all-transparent files are invalid,
\* and an image with at least one opaque pixel is valid whatever its size.
VerifyValidWithOneOpaquePixel ==
    v_pc = "returned" =>
        /\ (v_file.kind # "image" => ~v_ret.valid)
        /\ (v_file.kind = "image" /\ AlphaSum(v_file) = 0 => ~v_ret.valid)
        /\ (v_file.kind = "image" /\ v_file.opaque >= 1 /\ v_tool = "ok" => v_ret.valid)

\* C6, amended: missing, zero-byte and all-transparent files are invalid; an
\* image is valid exactly when identify succeeds and the mean alpha over all
\* pixels is at least 0.01 (100 * alpha sum >= 255 * pixels).
VerifyValidIffMeanAlpha ==
    v_pc = "returned" =>
        /\ (v_file.kind # "image" => ~v_ret.valid)
        /\ (v_file.kind = "image" /\ AlphaSum(v_file) = 0 => ~v_ret.valid)
        /\ (v_file.kind = "image" =>
              (v_ret.valid <=>
                 (v_tool = "ok" /\ 100 * AlphaSum(v_file) >= 255 * Pixels(v_file))))

\* Witness of C6: a 96 x 96 image with one opaque pixel is judged
\* all-transparent.
OneOpaquePixelJudgedTransparent ==
    /\ v_pc = "returned" /\ v_tool = "ok"
    /\ v_file.kind = "image" /\ v_file.w = SIZE /\ v_file.h = SIZE
    /\ v_file.opaque = 1
    /\ ~v_ret.valid /\ v_ret.message = "Image is all-transparent"

=============================================================================
